---- MODULE Spec2Model ----
(***************************************************************************)
(* A model of engine.py: the stat table, the damage pipeline (_core_math), *)
(* the trigger-chain walk (simulate_chain_with_profile) and the tick loop  *)
(* of simulate_mvp_fight.                                                  *)
(*                                                                         *)
(* Numbers.  Python floats that carry damage, health and rates are         *)
(* modelled as exact rationals <<n, d>> (d > 0, lowest terms).  The loop   *)
(* clock `time` is different: the loop adds dt to it once per tick and the *)
(* rounding of that addition decides how many ticks run, so the clock is   *)
(* modelled as an IEEE-754 binary64 value with round-to-nearest-even.      *)
(* A health that is a whole number as a rational can be a hair below it as *)
(* a float, so an int(...) sample of the timeline may read one more here   *)
(* than in a run of the code; outcomes, times, tick counts and the logs of *)
(* the tree walk do not depend on it.                                      *)
(***************************************************************************)
EXTENDS Integers, Sequences, FiniteSets, TLC

(***************************************************************************)
(* Exact rationals.                                                        *)
(***************************************************************************)
Abs(n) == IF n < 0 THEN -n ELSE n

RECURSIVE GCD(_, _)
GCD(a, b) == IF b = 0 THEN a ELSE GCD(b, a % b)

Q(n, d) ==
    LET s == IF d < 0 THEN -1 ELSE 1
        g == GCD(Abs(n), Abs(d))
    IN  IF n = 0 THEN <<0, 1>> ELSE <<(s * n) \div g, (s * d) \div g>>

QI(n) == <<n, 1>>
QZero == <<0, 1>>
QOne == <<1, 1>>

\* Sums over the least common denominator and products after cross-cancelling,
\* so that intermediate values stay small.
QAdd(a, b) ==
    LET g == GCD(a[2], b[2])
    IN  Q(a[1] * (b[2] \div g) + b[1] * (a[2] \div g), (a[2] \div g) * b[2])
QNeg(a) == <<-a[1], a[2]>>
QSub(a, b) == QAdd(a, QNeg(b))
QMul(a, b) ==
    LET g1 == GCD(Abs(a[1]), b[2])
        g2 == GCD(Abs(b[1]), a[2])
    IN  IF a[1] = 0 \/ b[1] = 0 THEN <<0, 1>>
        ELSE <<(a[1] \div g1) * (b[1] \div g2), (a[2] \div g2) * (b[2] \div g1)>>
QDiv(a, b) == QMul(a, IF b[1] < 0 THEN <<-b[2], -b[1]>> ELSE <<b[2], b[1]>>)
QLt(a, b) == QSub(a, b)[1] < 0
QLe(a, b) == QSub(a, b)[1] <= 0
QMax(a, b) == IF QLt(a, b) THEN b ELSE a
QMin(a, b) == IF QLt(b, a) THEN b ELSE a

\* int(x): truncation toward zero.
QInt(a) == IF a[1] >= 0 THEN a[1] \div a[2] ELSE -((-a[1]) \div a[2])

\* The integer nearest to a, ties to the even one.
QNearest(a) ==
    LET fl == a[1] \div a[2]
        r2 == 2 * (a[1] - fl * a[2])
    IN  IF r2 > a[2] THEN fl + 1
        ELSE IF r2 < a[2] THEN fl
        ELSE IF fl % 2 = 0 THEN fl ELSE fl + 1

\* f"{x:.2f}" followed by float(...): x rounded to a whole number of hundredths.
Fmt2(a) == Q(QNearest(QMul(a, QI(100))), 100)

(***************************************************************************)
(* binary64 for the loop clock.  A clock value is a non-negative multiple  *)
(* of 2^-56 below 2^8, written as four base-2^16 limbs, least significant  *)
(* first.  Every double in [2^-4, 2^8) is such a multiple.                 *)
(***************************************************************************)
Limb == 256 * 256

Pow2(k) == CASE k = 0 -> 1 [] k = 1 -> 2 [] k = 2 -> 4 [] k = 3 -> 8
             [] k = 4 -> 16 [] k = 5 -> 32 [] k = 6 -> 64 [] k = 7 -> 128
             [] k = 8 -> 256 [] k = 9 -> 512 [] k = 10 -> 1024
             [] k = 11 -> 2048 [] k = 12 -> 4096 [] k = 13 -> 8192
             [] k = 14 -> 16384 [] k = 15 -> 32768 [] OTHER -> 65536

\* Carry propagation over four limbs whose entries may exceed a limb.
Carry(x) ==
    LET c1 == x[1] \div Limb
        s2 == x[2] + c1
        c2 == s2 \div Limb
        s3 == x[3] + c2
        c3 == s3 \div Limb
    IN  <<x[1] % Limb, s2 % Limb, s3 % Limb, x[4] + c3>>

\* Number of significant bits of a limb, and of a four-limb value.
RECURSIVE BitLen1(_)
BitLen1(v) == IF v = 0 THEN 0 ELSE 1 + BitLen1(v \div 2)

BitLen(x) ==
    IF x[4] # 0 THEN 48 + BitLen1(x[4])
    ELSE IF x[3] # 0 THEN 32 + BitLen1(x[3])
    ELSE IF x[2] # 0 THEN 16 + BitLen1(x[2])
    ELSE BitLen1(x[1])

\* Round an exact value to 53 significant bits, ties to even.
Round53(x) ==
    LET s == BitLen(x) - 53
    IN  IF s <= 0 THEN x
        ELSE LET p == Pow2(s)
                 r == x[1] % p
                 odd == (x[1] \div p) % 2 = 1
                 up == 2 * r > p \/ (2 * r = p /\ odd)
             IN  Carry(<<x[1] - r + (IF up THEN p ELSE 0), x[2], x[3], x[4]>>)

\* a + b in binary64.
FAdd(a, b) == Round53(Carry(<<a[1] + b[1], a[2] + b[2], a[3] + b[3], a[4] + b[4]>>))

\* Exact order on clock values.
FLt(a, b) ==
    \/ a[4] < b[4]
    \/ a[4] = b[4] /\ a[3] < b[3]
    \/ a[4] = b[4] /\ a[3] = b[3] /\ a[2] < b[2]
    \/ a[4] = b[4] /\ a[3] = b[3] /\ a[2] = b[2] /\ a[1] < b[1]

FLe(a, b) == ~FLt(b, a)

\* a - b in binary64, for a >= b.
FSub(a, b) ==
    LET d1 == a[1] - b[1]
        w1 == IF d1 < 0 THEN 1 ELSE 0
        d2 == a[2] - b[2] - w1
        w2 == IF d2 < 0 THEN 1 ELSE 0
        d3 == a[3] - b[3] - w2
        w3 == IF d3 < 0 THEN 1 ELSE 0
    IN  Round53(<<d1 + w1 * Limb, d2 + w2 * Limb, d3 + w3 * Limb, a[4] - b[4] - w3>>)

\* The double of a whole number of seconds below 256.
FInt(k) == <<0, 0, 0, k * 256>>

\* The double nearest 0.1: 0x1999999999999A * 2^-56.
FTenth == <<39322, 39321, 39321, 25>>

FZero == <<0, 0, 0, 0>>

\* round(x * scale) for scale 10 or 100, ties to even: the digits that
\* round(x, 1), round(x, 2) and f"{x:.1f}" keep.
FDecimal(x, scale) ==
    LET m1 == x[1] * scale
        m2 == x[2] * scale + m1 \div Limb
        m3 == x[3] * scale + m2 \div Limb
        m4 == x[4] * scale + m3 \div Limb
        whole == m4 \div 256
        top == m4 % 256
        low == (m1 % Limb) + (m2 % Limb) + (m3 % Limb)
        above == top > 128 \/ (top = 128 /\ low > 0)
        tie == top = 128 /\ low = 0
    IN  IF above \/ (tie /\ whole % 2 = 1) THEN whole + 1 ELSE whole

(***************************************************************************)
(* Dictionaries.  A Python dict is a function on its keys; d.get(k, def).  *)
(***************************************************************************)
Get(d, k, def) == IF k \in DOMAIN d THEN d[k] ELSE def

EmptyDict == [k \in {} |-> QZero]

\* str(k).endswith("_mult"), over the stat names of the catalog.
EndsWithMult(k) == k \in {"damage_taken_mult"}

\* f"flat_{dtype}" and f"inc_{dtype}".
FlatKey(dtype) == CASE dtype = "physical" -> "flat_physical"
                    [] dtype = "fire" -> "flat_fire"
                    [] dtype = "cold" -> "flat_cold"
                    [] OTHER -> "flat_lightning"

IncKey(dtype) == CASE dtype = "physical" -> "inc_physical"
                   [] dtype = "fire" -> "inc_fire"
                   [] dtype = "cold" -> "inc_cold"
                   [] OTHER -> "inc_lightning"

(***************************************************************************)
(* The content catalog: modifiers, skills, skill nodes, hero models and    *)
(* talents, enemy presets.  A SkillNode is named by an identifier; its     *)
(* trigger edges name their child nodes.                                   *)
(***************************************************************************)
Modifiers ==
    [ mod_quick |-> [stats |-> [atk_spd |-> Q(234, 1000)]],
      mod_slow  |-> [stats |-> [atk_spd |-> Q(-996, 1000)]],
      mod_dmg20 |-> [stats |-> [inc_all |-> Q(1, 5)]],
      mod_tough |-> [stats |-> [damage_taken_mult |-> Q(1, 2)]],
      mod_ember |-> [stats |-> [inc_elemental |-> Q(1, 2), inc_fire |-> Q(1, 4)]],
      mod_arms  |-> [stats |-> [base_atk |-> QI(40), flat_cold |-> QI(5)]] ]

Skills ==
    [ strike  |-> [name |-> "strike",
                   damage_components |->
                       << [min |-> QI(180), max |-> QI(220), type |-> "physical",
                           scaling_source |-> "none"] >>],
      jab     |-> [name |-> "jab",
                   damage_components |->
                       << [min |-> QI(8), max |-> QI(13), type |-> "physical",
                           scaling_source |-> "none"] >>],
      execute |-> [name |-> "execute",
                   damage_components |->
                       << [min |-> QI(100), max |-> QI(100), type |-> "fire",
                           scaling_source |-> "none"] >>],
      smite   |-> [name |-> "smite",
                   damage_components |->
                       << [min |-> QI(50), max |-> QI(70), type |-> "cold"] >>],
      mend    |-> [name |-> "mend",
                   damage_components |-> << >>,
                   effects |-> [heal_percent_max_hp |-> Q(1, 10), icd |-> QI(2)]],
      guard   |-> [name |-> "guard",
                   damage_components |-> << >>,
                   effects |-> [damage_taken_mult |-> Q(1, 2), duration |-> Q(1, 2)]],
      bulwark |-> [name |-> "bulwark",
                   damage_components |-> << >>,
                   effects |-> [heal_percent_max_hp |-> Q(1, 20), icd |-> QI(4),
                                damage_taken_mult |-> Q(1, 2), duration |-> QI(3)]] ]

Nodes ==
    [ n_strike   |-> [skill |-> Skills.strike, modifiers |-> << >>, triggers |-> << >>],
      n_jab      |-> [skill |-> Skills.jab, modifiers |-> << >>, triggers |-> << >>],
      n_exec     |-> [skill |-> Skills.execute, modifiers |-> << >>, triggers |-> << >>],
      n_exec_q   |-> [skill |-> Skills.execute, modifiers |-> <<Modifiers.mod_quick>>,
                      triggers |-> << >>],
      n_exec_s   |-> [skill |-> Skills.execute, modifiers |-> <<Modifiers.mod_slow>>,
                      triggers |-> << >>],
      n_exec_hit |-> [skill |-> Skills.execute, modifiers |-> << >>,
                      triggers |-> << [condition |-> "on_hit", node |-> "n_jab"] >>],
      n_mend     |-> [skill |-> Skills.mend, modifiers |-> << >>, triggers |-> << >>],
      n_guard    |-> [skill |-> Skills.guard, modifiers |-> << >>, triggers |-> << >>],
      r_solo     |-> [skill |-> Skills.strike, modifiers |-> << >>, triggers |-> << >>],
      r_crit     |-> [skill |-> Skills.strike, modifiers |-> <<Modifiers.mod_dmg20>>,
                      triggers |-> << [condition |-> "on_crit", node |-> "n_exec"],
                                      [condition |-> "fixed_chance_20", node |-> "n_jab"] >>],
      r_quick    |-> [skill |-> Skills.strike, modifiers |-> << >>,
                      triggers |-> << [condition |-> "on_hit", node |-> "n_exec_q"] >>],
      r_slow     |-> [skill |-> Skills.jab, modifiers |-> << >>,
                      triggers |-> << [condition |-> "on_hit", node |-> "n_exec_s"] >>],
      r_deep     |-> [skill |-> Skills.jab, modifiers |-> << >>,
                      triggers |-> << [node |-> "n_exec_hit"] >>],
      r_mend     |-> [skill |-> Skills.jab, modifiers |-> << >>,
                      triggers |-> << [condition |-> "hp_lt_30", node |-> "n_mend"],
                                      [condition |-> "hp_lt_30", node |-> "n_exec"] >>],
      r_guard    |-> [skill |-> Skills.strike, modifiers |-> <<Modifiers.mod_tough>>,
                      triggers |-> << [condition |-> "hp_lt_30", node |-> "n_guard"] >>],
      r_aura     |-> [skill |-> Skills.guard, modifiers |-> << >>,
                      triggers |-> << [condition |-> "on_crit", node |-> "n_exec"],
                                      [condition |-> "on_hit", node |-> "n_jab"] >>],
      r_regen    |-> [skill |-> Skills.strike, modifiers |-> << >>,
                      triggers |-> << [condition |-> "on_hit", node |-> "n_mend"] >>],
      r_back     |-> [skill |-> Skills.jab,
                      modifiers |-> <<Modifiers.mod_slow, Modifiers.mod_slow>>,
                      triggers |-> << >>],
      r_ward     |-> [skill |-> Skills.guard, modifiers |-> <<Modifiers.mod_quick>>,
                      triggers |-> << >>],
      r_numb     |-> [skill |-> Skills.guard,
                      modifiers |-> <<Modifiers.mod_slow, Modifiers.mod_slow>>,
                      triggers |-> << >>],
      r_bulwark  |-> [skill |-> Skills.bulwark, modifiers |-> << >>, triggers |-> << >>],
      r_bulwark_s |-> [skill |-> Skills.bulwark, modifiers |-> <<Modifiers.mod_slow>>,
                       triggers |-> << >>],
      r_bulwark_n |-> [skill |-> Skills.bulwark,
                       modifiers |-> <<Modifiers.mod_slow, Modifiers.mod_slow>>,
                       triggers |-> << >>],
      r_loop     |-> [skill |-> Skills.jab, modifiers |-> << >>,
                      triggers |-> << [condition |-> "on_hit", node |-> "r_loop"] >>],
      r_ping     |-> [skill |-> Skills.execute, modifiers |-> << >>,
                      triggers |-> << [condition |-> "on_hit", node |-> "n_pong"],
                                      [condition |-> "on_hit", node |-> "n_jab"] >>],
      n_pong     |-> [skill |-> Skills.jab, modifiers |-> << >>,
                      triggers |-> << [condition |-> "on_hit", node |-> "r_ping"] >>],
      r_odd      |-> [skill |-> Skills.strike, modifiers |-> << >>,
                      triggers |-> << [condition |-> "on_kill", node |-> "n_exec"],
                                      [condition |-> "on_hit", node |-> "n_jab"],
                                      [condition |-> "hp_lt_50", node |-> "n_mend"],
                                      [condition |-> "fixed_chance_20", node |-> "n_guard"] >>],
      r_odd_cut  |-> [skill |-> Skills.strike, modifiers |-> << >>,
                      triggers |-> << [condition |-> "on_hit", node |-> "n_jab"],
                                      [condition |-> "fixed_chance_20", node |-> "n_guard"] >>],
      r_chance   |-> [skill |-> Skills.strike, modifiers |-> << >>,
                      triggers |-> << [condition |-> "fixed_chance_20", node |-> "n_mend"] >>] ]

Roots ==
    {"r_solo", "r_crit", "r_quick", "r_slow", "r_deep", "r_mend", "r_guard", "r_aura",
     "r_regen", "r_back"}

\* The root_node argument of a caller that has no node to pass: None.
NoneNode == "None"

\* The trees of the stand-alone evaluations: those of the fights and trees
\* whose root carries an effects block at several attack rates, and trees
\* with a trigger edge that points back to the node itself or to an ancestor,
\* and a tree with edges whose condition tag the walk does not know.
EvalRoots ==
    Roots \cup {"r_ward", "r_numb", "r_bulwark", "r_bulwark_s", "r_bulwark_n",
                "r_loop", "r_ping", "r_odd", "r_odd_cut", "r_chance"}

(***************************************************************************)
(* Stat model.                                                             *)
(***************************************************************************)
\* DiabloEngine._get_rule: the catalog carries no "rules" table, so every
\* rule resolves to its default.
Rules == EmptyDict

get_rule(key, default) == Get(Rules, key, default)

\* dict.update: the entries of b override those of a.
Update(a, b) == [k \in DOMAIN a \cup DOMAIN b |-> IF k \in DOMAIN b THEN b[k] ELSE a[k]]

\* One modifier's stat deltas merged into temp: "_mult" keys multiply
\* (seeded at 1), the others add (seeded at 0).
ApplyMod(temp, mod) ==
    LET d == Get(mod, "stats", EmptyDict)
    IN  [k \in DOMAIN temp \cup DOMAIN d |->
            IF k \notin DOMAIN d THEN temp[k]
            ELSE IF EndsWithMult(k) THEN QMul(Get(temp, k, QOne), d[k])
            ELSE QAdd(Get(temp, k, QZero), d[k])]

RECURSIVE ApplyMods(_, _, _)
ApplyMods(temp, mods, i) ==
    IF i > Len(mods) THEN temp ELSE ApplyMods(ApplyMod(temp, mods[i]), mods, i + 1)

\* DiabloEngine._apply_modifier_stats: a fresh table, base_stats untouched.
apply_modifier_stats(base_stats, mods) == ApplyMods(base_stats, mods, 1)

\* Variant: temp is the caller's table itself, not a copy of it.
StatsAfterApplyAliased(base_stats, mods) == apply_modifier_stats(base_stats, mods)

\* What _apply_modifier_stats leaves in the table it was given: temp is a deep
\* copy (line 82), so the writes of lines 90 and 92 do not reach base_stats.
StatsAfterApply(base_stats, mods) == base_stats

\* The talent loop of build_hero: dynamic_stats are added to the table.
ApplyTalent(st, talent_data) ==
    LET d == Get(talent_data, "dynamic_stats", EmptyDict)
    IN  [k \in DOMAIN st \cup DOMAIN d |->
            IF k \in DOMAIN d THEN QAdd(Get(st, k, QZero), d[k]) ELSE st[k]]

\* DiabloEngine.build_hero: base stats, attributes, talents, then the derived
\* max_hp, crit_rate, inc_elemental, atk_spd and damage_taken_mult.
build_hero(model_data, talent_data) ==
    LET s0 == Update(Get(model_data, "base_stats", EmptyDict),
                     Get(model_data, "attributes", EmptyDict))
        s1 == ApplyTalent(s0, talent_data)
        base_hp == get_rule("base_hp", QI(500))
        str_to_hp == get_rule("str_to_hp", QI(20))
        agi_to_crit == get_rule("agi_to_crit_rate", Q(2, 1000))
        int_to_ele == get_rule("int_to_inc_elemental", Q(2, 100))
        str_v == Get(s1, "str", QZero)
        agi_v == Get(s1, "agi", QZero)
        int_v == Get(s1, "int", QZero)
        max_hp_bonus == Get(s1, "max_hp_bonus", QZero)
        derived ==
            [ max_hp |-> Get(s1, "max_hp",
                             QAdd(QAdd(base_hp, QMul(str_v, str_to_hp)), max_hp_bonus)),
              crit_rate |-> Get(s1, "crit_rate", QAdd(Q(5, 100), QMul(agi_v, agi_to_crit))),
              inc_elemental |-> Get(s1, "inc_elemental", QMul(int_v, int_to_ele)),
              atk_spd |-> Get(s1, "atk_spd", QOne),
              damage_taken_mult |-> Get(s1, "damage_taken_mult", QOne) ]
    IN  Update(s1, derived)

(***************************************************************************)
(* Damage pipeline.                                                        *)
(***************************************************************************)
\* Variant: the resolved crit_rate used as it is.
ClampCritNone(r) == r

\* min(1.0, max(0.0, crit_rate)) of _core_math.
ClampCrit(r) == QMin(QOne, QMax(QZero, r))

\* The hit value of _core_math before crit: base_avg * inc * more.
HitDmg(comp, current_stats) ==
    LET min_dmg == Get(comp, "min", QZero)
        max_dmg == Get(comp, "max", QZero)
        dtype == Get(comp, "type", "physical")
        scale_src == Get(comp, "scaling_source", "base_atk")
        scale_coef == Get(comp, "scaling_coef", QOne)
        source_val == Get(current_stats, scale_src, QZero)
        flat_bonus == Get(current_stats, FlatKey(dtype), QZero)
        base_avg == QAdd(QAdd(QDiv(QAdd(min_dmg, max_dmg), QI(2)),
                              QMul(source_val, scale_coef)), flat_bonus)
        inc0 == QAdd(QAdd(QOne, Get(current_stats, "inc_all", QZero)),
                     Get(current_stats, IncKey(dtype), QZero))
        inc == IF dtype \in {"fire", "cold", "lightning"}
               THEN QMul(inc0, QAdd(QOne, Get(current_stats, "inc_elemental", QZero)))
               ELSE inc0
        more == QAdd(QOne, Get(current_stats, "more_damage", QZero))
    IN  QMul(QMul(base_avg, inc), more)

\* DiabloEngine._core_math.
core_math(skill, current_stats) ==
    LET comps == Get(skill, "damage_components", << >>)
    IN  IF comps = << >>
        THEN [dps |-> QZero, avg_hit |-> QZero,
              aps |-> Get(current_stats, "atk_spd", QOne),
              crit_rate |-> QZero, dmg_type |-> "none"]
        ELSE LET comp == comps[1]
                 hit_dmg == HitDmg(comp, current_stats)
                 crit_rate == ClampCrit(Get(current_stats, "crit_rate", Q(5, 100)))
                 crit_dmg == Get(current_stats, "crit_dmg", Q(3, 2))
                 avg_hit == QAdd(QMul(hit_dmg, QSub(QOne, crit_rate)),
                                 QMul(QMul(hit_dmg, crit_dmg), crit_rate))
                 aps == Get(current_stats, "atk_spd", QOne)
             IN  [dps |-> QMul(avg_hit, aps), avg_hit |-> avg_hit, aps |-> aps,
                  crit_rate |-> crit_rate, dmg_type |-> Get(comp, "type", "physical")]

\* DiabloEngine.calculate_skill_damage.
calculate_skill_damage(self_stats, skill_data, modifiers_list) ==
    LET final_stats == apply_modifier_stats(self_stats, modifiers_list)
        res == core_math(skill_data, final_stats)
    IN  [DPS |-> res.dps, Avg_Hit |-> res.avg_hit,
         Crit_Info |-> [rate |-> res.crit_rate, aps |-> res.aps],
         Trigger_Info |-> << >>]

(***************************************************************************)
(* Trigger-chain propagator: simulate_chain_with_profile and its helpers.  *)
(***************************************************************************)
\* Variant: no clamp.
clamp01None(x) == x

clamp01(x) == IF QLt(x, QZero) THEN QZero ELSE IF QLt(QOne, x) THEN QOne ELSE x

merge_profile(p, child_p) ==
    [ heal_per_sec |-> QAdd(p.heal_per_sec, child_p.heal_per_sec),
      damage_taken_mult |-> QMul(p.damage_taken_mult, child_p.damage_taken_mult),
      uptime_guard |-> QMax(p.uptime_guard, child_p.uptime_guard) ]

\* Variant: the internal cooldown is ignored.
expected_proc_rate_uncapped(freq, icd) == QMax(QZero, freq)

expected_proc_rate(freq, icd) ==
    IF QLe(icd, QZero) THEN QMax(QZero, freq)
    ELSE QMin(QMax(QZero, freq), QDiv(QOne, icd))

EmptyProfile ==
    [heal_per_sec |-> QZero, damage_taken_mult |-> QOne, uptime_guard |-> QZero]

\* Variant: the "dps" field rounded to the nearest integer.
LogDpsRounded(dps) == QNearest(dps)

\* The "dps" field of a log entry: int(dps).
LogDps(dps) == QInt(dps)

\* The "aps" field of a log entry: f"{aps:.2f}", kept as the number it spells.
LogAps(aps) == Fmt2(aps)

\* The side-effect profile of one node's own effects block.
EffectsProfile(skill, base_res, self_stats) ==
    LET effects == Get(skill, "effects", EmptyDict)
    IN  IF DOMAIN effects = {} THEN EmptyProfile
        ELSE LET max_hp == Get(self_stats, "max_hp", QI(500))
                 freq == base_res.aps
                 icd == Get(effects, "icd", QZero)
                 proc == expected_proc_rate(freq, icd)
                 heal_pct == Get(effects, "heal_percent_max_hp", QZero)
                 heal == IF QLt(QZero, heal_pct)
                         THEN QMul(QMul(proc, heal_pct), max_hp) ELSE QZero
                 duration == Get(effects, "duration", QZero)
                 guarded == "damage_taken_mult" \in DOMAIN effects /\ QLt(QZero, duration)
                 uptime == clamp01(QMul(proc, duration))
                 expected_mult == QAdd(QMul(uptime, Get(effects, "damage_taken_mult", QOne)),
                                       QSub(QOne, uptime))
             IN  [ heal_per_sec |-> heal,
                   damage_taken_mult |-> IF guarded THEN expected_mult ELSE QOne,
                   uptime_guard |-> IF guarded THEN QMax(QZero, uptime) ELSE QZero ]

\* Variant: a tag the walk does not know counts as on_hit.
TriggerFreqLenient(cond, base_res, hp_percent) ==
    CASE cond = "on_crit" -> QMul(base_res.aps, base_res.crit_rate)
      [] cond = "fixed_chance_20" -> QMul(base_res.aps, Q(2, 10))
      [] cond = "hp_lt_30" -> IF QLt(hp_percent, Q(3, 10)) THEN base_res.aps ELSE QZero
      [] OTHER -> base_res.aps

\* Variant: on_crit fires on every attack.
TriggerFreqFlat(cond, base_res, hp_percent) ==
    CASE cond \in {"on_crit", "on_hit"} -> base_res.aps
      [] cond = "fixed_chance_20" -> QMul(base_res.aps, Q(2, 10))
      [] cond = "hp_lt_30" -> IF QLt(hp_percent, Q(3, 10)) THEN base_res.aps ELSE QZero
      [] OTHER -> QZero

\* The proc rate of one trigger edge, from the parent's rates and the
\* simulation state's hp_percent.
TriggerFreq(cond, base_res, hp_percent) ==
    CASE cond = "on_crit" -> QMul(base_res.aps, base_res.crit_rate)
      [] cond = "on_hit" -> base_res.aps
      [] cond = "fixed_chance_20" -> QMul(base_res.aps, Q(2, 10))
      [] cond = "hp_lt_30" -> IF QLt(hp_percent, Q(3, 10)) THEN base_res.aps ELSE QZero
      [] OTHER -> QZero

\* The child's native attack rate, read back from its first log entry.
ChildNativeAps(child_logs) ==
    LET a == child_logs[1].aps IN IF QLe(a, QZero) THEN QOne ELSE a

\* The child's DPS with its frequency replaced by the proc rate.
RealChildDps(child_dps, child_native_aps, trigger_freq) ==
    QMul(QDiv(child_dps, child_native_aps), trigger_freq)

\* Variant: the test of the depth cap lets one more level through.
DepthReachedLate(depth, max_depth) == depth > max_depth

\* The test that ends the walk of a node before its trigger loop.
DepthReached(depth, max_depth) == depth >= max_depth

RECURSIVE walk(_, _, _, _, _)
RECURSIVE WalkTriggers(_, _, _, _, _, _, _, _)

\* The trigger loop of walk, from edge i on; acc is (node_dps, node_logs,
\* node_profile) so far, with the calls of walk made so far (visits: node and
\* depth of each call, in call order).
WalkTriggers(acc, node, base_res, i, depth, self_stats, hp_percent, max_depth) ==
    IF i > Len(node.triggers) THEN acc
    ELSE LET trig == node.triggers[i]
             cond == Get(trig, "condition", "on_hit")
             trigger_freq == TriggerFreq(cond, base_res, hp_percent)
         IN  IF QLe(trigger_freq, QZero)
             THEN WalkTriggers(acc, node, base_res, i + 1, depth,
                               self_stats, hp_percent, max_depth)
             ELSE LET child == walk(trig.node, depth + 1, self_stats, hp_percent, max_depth)
                      real_child_dps == RealChildDps(child.dps, ChildNativeAps(child.logs),
                                                     trigger_freq)
                      entry == [skill |-> Nodes[trig.node].skill.name, role |-> "Trigger",
                                dps |-> LogDps(real_child_dps),
                                aps |-> LogAps(trigger_freq), info |-> "via " \o cond]
                      next == [dps |-> QAdd(acc.dps, real_child_dps),
                               logs |-> Append(acc.logs, entry),
                               profile |-> merge_profile(acc.profile, child.profile),
                               visits |-> acc.visits \o child.visits]
                  IN  WalkTriggers(next, node, base_res, i + 1, depth,
                                   self_stats, hp_percent, max_depth)

\* walk(node, depth) of simulate_chain_with_profile; self_stats and hp_percent
\* are the engine's stats and simulation_state["hp_percent"] at the call.
walk(id, depth, self_stats, hp_percent, max_depth) ==
    LET node == Nodes[id]
        node_stats == apply_modifier_stats(self_stats, node.modifiers)
        base_res == core_math(node.skill, node_stats)
        own == [dps |-> base_res.dps,
                logs |-> << [skill |-> node.skill.name,
                             role |-> IF depth = 0 THEN "Main" ELSE "Sub",
                             dps |-> LogDps(base_res.dps),
                             aps |-> LogAps(base_res.aps), info |-> "base"] >>,
                profile |-> EffectsProfile(node.skill, base_res, self_stats),
                visits |-> << [node |-> id, depth |-> depth] >>]
    IN  IF DepthReached(depth, max_depth) THEN own
        ELSE WalkTriggers(own, node, base_res, 1, depth, self_stats, hp_percent, max_depth)

RECURSIVE StatsAfterWalk(_, _, _)

\* self.stats after the calls of walk v[i], v[i+1], ...: each call hands
\* self.stats to _apply_modifier_stats with the node's modifiers.
StatsAfterWalk(v, i, self_stats) ==
    IF i > Len(v) THEN self_stats
    ELSE StatsAfterWalk(v, i + 1, StatsAfterApply(self_stats, Nodes[v[i].node].modifiers))

\* DiabloEngine.simulate_chain_with_profile.
simulate_chain_with_profile(root_node, max_depth, self_stats, hp_percent) ==
    walk(root_node, 0, self_stats, hp_percent, max_depth)

(***************************************************************************)
(* Inputs of the fights: hero models, talents and enemy presets.  A float  *)
(* argument that feeds the loop clock carries its binary64 value (f) and   *)
(* the decimal it was written as (q).                                      *)
(***************************************************************************)
Models ==
    [ m_plain |-> [base_stats |-> [crit_rate |-> QZero]],
      m_agile |-> [base_stats |-> [crit_dmg |-> QI(2), atk_spd |-> QI(2)],
                   attributes |-> [str |-> QI(5), agi |-> QI(100)]],
      m_frail |-> [base_stats |-> [max_hp |-> Q(1, 2), crit_rate |-> Q(-1, 2),
                                   damage_taken_mult |-> QI(-4)]] ]

Talents ==
    [ t_none |-> EmptyDict,
      t_fury |-> [dynamic_stats |-> [crit_rate |-> Q(3, 2), damage_taken_mult |-> QI(4)]] ]

DTenth == [f |-> FTenth, q |-> Q(1, 10)]
DHalf == [f |-> <<0, 0, 0, 128>>, q |-> Q(1, 2)]
DInt(k) == [f |-> FInt(k), q |-> QI(k)]

Enemies ==
    [ e_trial |-> [enemy_hp |-> QI(3000), enemy_dps |-> QI(30), max_time |-> DInt(20),
                   dt |-> DTenth, boss_crit_interval |-> DInt(4),
                   boss_crit_mult |-> Q(5, 2)],
      e_brute |-> [enemy_hp |-> QI(3000), enemy_dps |-> QI(300), max_time |-> DInt(20),
                   dt |-> DTenth, boss_crit_interval |-> DInt(4),
                   boss_crit_mult |-> Q(5, 2)],
      e_wall  |-> [enemy_hp |-> QI(3000), enemy_dps |-> QI(10), max_time |-> DInt(1),
                   dt |-> DTenth, boss_crit_interval |-> DInt(4),
                   boss_crit_mult |-> Q(5, 2)],
      e_duel  |-> [enemy_hp |-> QI(100), enemy_dps |-> QI(2000), max_time |-> DInt(2),
                   dt |-> DHalf, boss_crit_interval |-> DInt(1),
                   boss_crit_mult |-> Q(5, 2)],
      e_zero  |-> [enemy_hp |-> QI(3000), enemy_dps |-> QI(30), max_time |-> DInt(0),
                   dt |-> DTenth, boss_crit_interval |-> DInt(4),
                   boss_crit_mult |-> Q(5, 2)],
      e_edge  |-> [enemy_hp |-> QI(210), enemy_dps |-> QI(10), max_time |-> DInt(1),
                   dt |-> DTenth, boss_crit_interval |-> DInt(4),
                   boss_crit_mult |-> Q(5, 2)] ]

Depths == {1, 2}

\* The seed the console passes (it only labels the result).
Seeds == {12345}

(***************************************************************************)
(* State.                                                                  *)
(***************************************************************************)
VARIABLES
    hero,              \* the model and talent the engine was built from
    stats,             \* DiabloEngine.stats
    simulation_state,  \* DiabloEngine.simulation_state
    pc,                \* "new", "idle", "running", "done"
    args,              \* the arguments of the fight in progress
    hero_hp, hero_max_hp, enemy_hp,
    time, last_crit_time,
    timeline, combat_log,
    dps, logs, profile,   \* the last tick's tree evaluation
    result,            \* what simulate_mvp_fight returned
    first,             \* the result of the first run of these arguments
    replays,           \* how many times the run was repeated
    out,               \* what the last stand-alone evaluation returned
    other              \* a second engine instance and its fight, if there is one

vars == <<hero, stats, simulation_state, pc, args, hero_hp, hero_max_hp, enemy_hp,
          time, last_crit_time, timeline, combat_log, dps, logs, profile,
          result, first, replays, out, other>>

fight_locals == <<hero_hp, hero_max_hp, enemy_hp, time, last_crit_time,
                  timeline, combat_log, dps, logs, profile>>

MaxReplays == 1

NoArgs == [root |-> "none", enemy |-> "none", max_depth |-> 0, seed |-> 0]
NoResult == [result |-> "NONE"]
NoOut == [kind |-> "none"]
NoOther == [pc |-> "none", stats |-> EmptyDict, simulation_state |-> [hp_percent |-> QOne]]

\* DiabloEngine.version.
version == "0.2-seed-deterministic"

\* _stable_hash: the canonical serialisation (keys sorted) that is digested.
stable_hash(r) ==
    <<r.boss_crit_interval, r.boss_crit_mult, r.combat_log, r.dt, r.engine_version,
      r.logs, r.reason, r.result, r.seed, r.time, r.timeline>>

\* The result record with its determinism header and fingerprint.
MakeResult(res, t, reason, tl, lg, cl, a) ==
    LET e == Enemies[a.enemy]
        r == [result |-> res, time |-> t, reason |-> reason, timeline |-> tl,
              logs |-> lg, combat_log |-> cl, seed |-> a.seed, dt |-> e.dt.q,
              boss_crit_interval |-> e.boss_crit_interval.q,
              boss_crit_mult |-> e.boss_crit_mult, engine_version |-> version]
    IN  [result |-> r.result, time |-> r.time, reason |-> r.reason,
         timeline |-> r.timeline, logs |-> r.logs, combat_log |-> r.combat_log,
         seed |-> r.seed, dt |-> r.dt, boss_crit_interval |-> r.boss_crit_interval,
         boss_crit_mult |-> r.boss_crit_mult, engine_version |-> r.engine_version,
         result_hash |-> stable_hash(r)]

\* An exception that escapes simulate_mvp_fight.
Raised(exc) == [result |-> "RAISED", reason |-> exc]

(***************************************************************************)
(* Construction: DiabloEngine(data) followed by build_hero.                *)
(***************************************************************************)
Init ==
    /\ hero = <<"none", "none">>
    /\ stats = EmptyDict
    /\ simulation_state = [hp_percent |-> QOne]
    /\ pc = "new"
    /\ args = NoArgs
    /\ hero_hp = QZero /\ hero_max_hp = QZero /\ enemy_hp = QZero
    /\ time = FZero /\ last_crit_time = [neg |-> FALSE, mag |-> FZero]
    /\ timeline = << >> /\ combat_log = << >>
    /\ dps = QZero /\ logs = << >> /\ profile = EmptyProfile
    /\ result = NoResult /\ first = NoResult /\ replays = 0
    /\ out = NoOut
    /\ other = NoOther

BuildHero(m, t) ==
    /\ pc = "new"
    /\ hero' = <<m, t>>
    /\ stats' = build_hero(Models[m], Talents[t])
    /\ pc' = "idle"
    /\ UNCHANGED <<simulation_state, args, fight_locals, result, first, replays, out>>
    /\ UNCHANGED other

(***************************************************************************)
(* simulate_mvp_fight: entry, one tick of the loop, and the loop's exit.   *)
(***************************************************************************)
\* Lines 265-293: the locals before the loop.
Enter(a) ==
    LET e == Enemies[a.enemy]
    IN  /\ args' = a
        /\ hero_hp' = Get(stats, "max_hp", QI(500))
        /\ hero_max_hp' = Get(stats, "max_hp", QI(500))
        /\ enemy_hp' = e.enemy_hp
        /\ time' = FZero
        /\ timeline' = << >>
        /\ combat_log' = << >>
        /\ last_crit_time' = [neg |-> TRUE, mag |-> e.boss_crit_interval.f]
        /\ dps' = QZero /\ logs' = << >> /\ profile' = EmptyProfile
        /\ result' = NoResult
        /\ pc' = "running"

StartFight(root, enemy, max_depth, seed) ==
    /\ pc \in {"new", "idle"}
    /\ Enter([root |-> root, enemy |-> enemy, max_depth |-> max_depth, seed |-> seed])
    /\ out' = NoOut
    /\ UNCHANGED <<hero, stats, simulation_state, first, replays>>
    /\ UNCHANGED other

\* Variant: the attribute is one object shared by the engine instances.
InstanceAttrShared(own, foreign) == foreign

\* self.stats and self.simulation_state as a method of an engine reads them:
\* __init__ binds both on the instance (lines 25-26), so the engine reads its
\* own, whatever another instance (foreign) holds.
InstanceAttr(own, foreign) == own

\* Variant: the fraction of the fight's start, whatever the health is now.
TickHpPctFull(hp, max_hp) == QOne

\* The health fraction a tick feeds to set_simulation_state.
TickHpPct(hp, max_hp) == QMax(QZero, QDiv(hp, QMax(max_hp, QOne)))

\* Variant: the walk runs before the tick stores the fresh fraction.
SimulationHpPercentStale(fresh, before) == before

\* The hp_percent the tick's tree walk reads from simulation_state: the tick
\* has just stored `fresh` there, over the value `before` it held.
SimulationHpPercent(fresh, before) == fresh

\* time - last_crit_time.
SinceLastCrit(t, last) == IF last.neg THEN FAdd(t, last.mag) ELSE FSub(t, last.mag)

\* Variant: a burst on every tick.
IsBossCritAlways(t, last, interval) == TRUE

\* The boss mechanic's test of a tick.
IsBossCrit(t, last, interval) == FLe(interval, SinceLastCrit(t, last))

\* Variant: the product is used as it is.
FinalTakenMultRaw(stat_mult, profile_mult) == QMul(stat_mult, profile_mult)

\* max(0.1, min(2.0, stat * profile)).
FinalTakenMult(stat_mult, profile_mult) ==
    QMax(Q(1, 10), QMin(QI(2), QMul(stat_mult, profile_mult)))

\* Variant: the heal is added without the cap.
HealedUnclamped(hp, max_hp, heal_amt) ==
    IF QLt(QZero, heal_amt) /\ QLt(hp, max_hp) THEN QAdd(hp, heal_amt) ELSE hp

\* The hero's health after the heal phase.
Healed(hp, max_hp, heal_amt) ==
    IF QLt(QZero, heal_amt) /\ QLt(hp, max_hp) THEN QMin(max_hp, QAdd(hp, heal_amt)) ELSE hp

\* Variant: the termination test reads the health before the heal.
TestedHpBeforeHeal(hp1, hp2) == hp1

\* The hero health the termination test reads: hp1 is the health after the
\* enemy's damage, hp2 the health after the heal phase that follows it.
TestedHp(hp1, hp2) == hp2

\* Variant: the enemy's death is tested before the hero's.
VerdictEnemyFirst(hp, ehp) ==
    IF QLe(ehp, QZero) THEN "WIN" ELSE IF QLe(hp, QZero) THEN "LOSE" ELSE "RUNNING"

\* The verdict at the end of a tick.
Verdict(hp, ehp) ==
    IF QLe(hp, QZero) THEN "LOSE" ELSE IF QLe(ehp, QZero) THEN "WIN" ELSE "RUNNING"

\* The loop test.
LoopRuns(t, max_time) == FLt(t, max_time)

\* The hero's health after the enemy's damage of the tick.
AfterDamage(hp, incoming_dmg, final_taken_mult) ==
    QSub(hp, QMul(incoming_dmg, final_taken_mult))

\* The combat log after a tick: the burst, the emergency heal and the death
\* lines, each with the clock as f"{time:.1f}" spells it.
TickLog(cl0, at, is_boss_crit, incoming_dmg, dt, heal_amt, hp1, max_hp, verdict) ==
    LET log1 == IF is_boss_crit
                THEN <<[at |-> at, what |-> "boss_crit", n |-> QInt(QDiv(incoming_dmg, dt))]>>
                ELSE << >>
        log2 == IF /\ QLt(QZero, heal_amt) /\ QLt(hp1, max_hp)
                   /\ QLt(hp1, QMul(max_hp, Q(3, 10)))
                THEN <<[at |-> at, what |-> "heal", n |-> QInt(QDiv(heal_amt, dt))]>>
                ELSE << >>
        log3 == CASE verdict = "LOSE" -> <<[at |-> at, what |-> "hero_dead", n |-> 0]>>
                  [] verdict = "WIN" -> <<[at |-> at, what |-> "enemy_dead", n |-> 0]>>
                  [] OTHER -> << >>
    IN  cl0 \o log1 \o log2 \o log3

\* The sample a tick appends to the timeline.
Sample(at, hp, ehp, is_boss_crit) ==
    [time |-> at, hero_hp |-> QInt(QMax(hp, QZero)),
     enemy_hp |-> QInt(QMax(ehp, QZero)), is_crit |-> is_boss_crit]

\* One iteration of the while loop (lines 295-382), returns included.  Each
\* local of the body is bound once, in the order the code assigns it.
Tick ==
    /\ pc = "running"
    /\ args.root # NoneNode
    /\ LoopRuns(time, Enemies[args.enemy].max_time.f)
    /\ \E e \in {Enemies[args.enemy]} :
       \E self_stats \in {InstanceAttr(stats, other.stats)} :
       \E hp_pct \in {TickHpPct(hero_hp, hero_max_hp)} :
       \E chain \in {simulate_chain_with_profile(
                         args.root, args.max_depth, self_stats,
                         SimulationHpPercent(
                             hp_pct,
                             InstanceAttr(simulation_state,
                                          other.simulation_state).hp_percent))} :
       \E ehp \in {QSub(enemy_hp, QMul(chain.dps, e.dt.q))} :
       \E is_boss_crit \in {IsBossCrit(time, last_crit_time, e.boss_crit_interval.f)} :
       \E incoming_dmg \in {IF is_boss_crit
                            THEN QMul(QMul(e.enemy_dps, e.dt.q), e.boss_crit_mult)
                            ELSE QMul(e.enemy_dps, e.dt.q)} :
       \E final_taken_mult \in {FinalTakenMult(Get(self_stats, "damage_taken_mult", QOne),
                                               chain.profile.damage_taken_mult)} :
       \E hp1 \in {AfterDamage(hero_hp, incoming_dmg, final_taken_mult)} :
       \E heal_amt \in {QMul(chain.profile.heal_per_sec, e.dt.q)} :
       \E hp2 \in {Healed(hp1, hero_max_hp, heal_amt)} :
       \E verdict \in {Verdict(TestedHp(hp1, hp2), ehp)} :
       \E at \in {FDecimal(time, 10)} :
       \E tl \in {Append(timeline, Sample(at, hp2, ehp, is_boss_crit))} :
       \E cl \in {TickLog(combat_log, at, is_boss_crit, incoming_dmg, e.dt.q,
                          heal_amt, hp1, hero_max_hp, verdict)} :
           /\ simulation_state' = [hp_percent |-> hp_pct]
           /\ stats' = StatsAfterWalk(chain.visits, 1, stats)
           /\ dps' = chain.dps /\ logs' = chain.logs /\ profile' = chain.profile
           /\ enemy_hp' = ehp
           /\ last_crit_time' = IF is_boss_crit THEN [neg |-> FALSE, mag |-> time]
                                ELSE last_crit_time
           /\ hero_hp' = hp2
           /\ timeline' = tl
           /\ combat_log' = cl
           /\ IF verdict = "RUNNING"
              THEN /\ time' = FAdd(time, e.dt.f)
                   /\ UNCHANGED <<pc, result>>
              ELSE /\ result' = MakeResult(verdict, FDecimal(time, 100),
                                           IF verdict = "LOSE" THEN "hero_dead"
                                           ELSE "enemy_dead",
                                           tl, chain.logs, cl, args)
                   /\ pc' = "done"
                   /\ UNCHANGED time
    /\ UNCHANGED <<hero, args, hero_max_hp, first, replays, out>>
    /\ UNCHANGED other

\* The iteration of a fight whose root_node is None: the tick stores the health
\* fraction (line 298), then walk reads node.modifiers (line 164) and the
\* AttributeError escapes simulate_mvp_fight.
TickRaises ==
    /\ pc = "running"
    /\ args.root = NoneNode
    /\ LoopRuns(time, Enemies[args.enemy].max_time.f)
    /\ simulation_state' = [hp_percent |-> TickHpPct(hero_hp, hero_max_hp)]
    /\ result' = Raised("AttributeError")
    /\ pc' = "done"
    /\ UNCHANGED <<hero, stats, args, fight_locals, first, replays, out>>
    /\ UNCHANGED other

\* The code after the loop (lines 384-400).  `logs` is bound by the first
\* tick only: without one, building the result raises UnboundLocalError.
Timeout ==
    /\ pc = "running"
    /\ ~LoopRuns(time, Enemies[args.enemy].max_time.f)
    /\ LET cl == Append(combat_log, [at |-> FDecimal(time, 10), what |-> "timeout",
                                     n |-> 0])
       IN  /\ combat_log' = cl
           /\ result' = IF logs = << >> THEN Raised("UnboundLocalError")
                        ELSE MakeResult("TIMEOUT",
                                        FDecimal(Enemies[args.enemy].max_time.f, 100),
                                        "damage_insufficient", timeline, logs, cl, args)
    /\ pc' = "done"
    /\ UNCHANGED <<hero, stats, simulation_state, args, hero_hp, hero_max_hp, enemy_hp,
                   time, last_crit_time, timeline, dps, logs, profile,
                   first, replays, out>>
    /\ UNCHANGED other

\* The caller runs the same arguments again on the same engine.
Replay ==
    /\ pc = "done"
    /\ replays < MaxReplays
    /\ Enter(args)
    /\ first' = IF first = NoResult THEN result ELSE first
    /\ replays' = replays + 1
    /\ out' = NoOut
    /\ UNCHANGED <<hero, stats, simulation_state>>
    /\ UNCHANGED other

\* The console's Replay: a new engine built from the same model and talent,
\* then the same arguments (run_build of app.py).
ReplayFresh ==
    /\ pc = "done"
    /\ replays < MaxReplays
    /\ Enter(args)
    /\ stats' = IF hero[1] = "none" THEN EmptyDict
                ELSE build_hero(Models[hero[1]], Talents[hero[2]])
    /\ simulation_state' = [hp_percent |-> QOne]
    /\ first' = IF first = NoResult THEN result ELSE first
    /\ replays' = replays + 1
    /\ out' = NoOut
    /\ UNCHANGED hero
    /\ UNCHANGED other

(***************************************************************************)
(* The stand-alone entry points, as a caller uses them between fights.     *)
(***************************************************************************)
HpPercents == {Q(1, 5), Q(3, 10), QOne}

EvalDepths == {-1, 0, 1, 2}

ModLists ==
    {<< >>, <<Modifiers.mod_quick>>, <<Modifiers.mod_dmg20, Modifiers.mod_slow>>,
     <<Modifiers.mod_ember>>, <<Modifiers.mod_dmg20, Modifiers.mod_ember>>,
     <<Modifiers.mod_arms>>}

\* DiabloEngine.set_simulation_state.
SetSimulationState(hp_percent) ==
    /\ pc \in {"new", "idle"}
    /\ simulation_state' = [simulation_state EXCEPT !.hp_percent = hp_percent]
    /\ UNCHANGED <<hero, stats, pc, args, fight_locals, result, first, replays, out>>
    /\ UNCHANGED other

\* A call of calculate_skill_damage; out is the call (its arguments and the
\* engine's stats at the call) and what it returned.
CalculateSkillDamage(sk, mods) ==
    /\ pc \in {"new", "idle"}
    /\ out = NoOut
    /\ out' = [kind |-> "calc", skill |-> sk, mods |-> mods, self_stats |-> stats,
               res |-> calculate_skill_damage(stats, Skills[sk], mods)]
    /\ stats' = StatsAfterApply(stats, mods)
    /\ UNCHANGED <<hero, simulation_state, pc, args, fight_locals,
                   result, first, replays>>
    /\ UNCHANGED other

\* A call of simulate_chain_with_profile, on an engine that is not inside a
\* fight; out is the call (its arguments, the engine's stats and simulation
\* state at the call) and what it returned.
EvalChain(root, max_depth) ==
    /\ pc \in {"new", "idle", "done"}
    /\ out = NoOut
    /\ root # NoneNode
    /\ \E r \in {simulate_chain_with_profile(root, max_depth, stats,
                                             simulation_state.hp_percent)} :
           /\ out' = [kind |-> "chain", root |-> root, max_depth |-> max_depth,
                      self_stats |-> stats, hp_percent |-> simulation_state.hp_percent,
                      total_dps |-> r.dps, logs |-> r.logs, profile |-> r.profile,
                      visits |-> r.visits]
           /\ stats' = StatsAfterWalk(r.visits, 1, stats)
    /\ UNCHANGED <<hero, simulation_state, pc, args, fight_locals,
                   result, first, replays>>
    /\ UNCHANGED other

\* A call of simulate_chain_with_profile with root_node None: walk reads
\* node.modifiers (line 164) and the AttributeError escapes to the caller.
EvalChainRaises(max_depth) ==
    /\ pc \in {"new", "idle"}
    /\ out = NoOut
    /\ out' = [kind |-> "raised", call |-> "chain", root |-> NoneNode,
               max_depth |-> max_depth, exception |-> "AttributeError"]
    /\ UNCHANGED <<hero, stats, simulation_state, pc, args, fight_locals,
                   result, first, replays>>
    /\ UNCHANGED other

\* The caller is done with what the last call returned; the next call
\* follows on the same engine.
Discard ==
    /\ out # NoOut
    /\ out' = NoOut
    /\ UNCHANGED <<hero, stats, simulation_state, pc, args, fight_locals,
                   result, first, replays>>
    /\ UNCHANGED other

NextEval ==
    \/ \E m \in DOMAIN Models, t \in DOMAIN Talents : BuildHero(m, t)
    \/ \E p \in HpPercents : SetSimulationState(p)
    \/ \E sk \in DOMAIN Skills, mods \in ModLists : CalculateSkillDamage(sk, mods)
    \/ \E r \in EvalRoots, d \in EvalDepths : EvalChain(r, d)
    \/ \E d \in EvalDepths : EvalChainRaises(d)
    \/ Discard

SpecEval == Init /\ [][NextEval]_vars

Next ==
    \/ \E m \in DOMAIN Models, t \in DOMAIN Talents : BuildHero(m, t)
    \/ \E r \in Roots \cup {NoneNode}, e \in DOMAIN Enemies, d \in Depths, sd \in Seeds :
           StartFight(r, e, d, sd)
    \/ Tick
    \/ TickRaises
    \/ Timeout
    \/ Replay
    \/ ReplayFresh

Spec == Init /\ [][Next]_vars

\* Fights, and tree calls made before or after them on the same engine.
NextAfterFight ==
    \/ \E m \in DOMAIN Models, t \in DOMAIN Talents : BuildHero(m, t)
    \/ \E r \in Roots \cup {NoneNode}, e \in DOMAIN Enemies, d \in Depths, sd \in Seeds :
           StartFight(r, e, d, sd)
    \/ Tick
    \/ TickRaises
    \/ Timeout
    \/ \E r \in EvalRoots, d \in EvalDepths : EvalChain(r, d)

SpecAfterFight == Init /\ [][NextAfterFight]_vars

(***************************************************************************)
(* Properties of the fight evaluation.                                     *)
(***************************************************************************)
\* C1: two fight evaluations given identical inputs return the same
\* result_hash, outcome, time and timeline, whether the second run is on a
\* fresh engine or follows the first on the same engine.
C1_SameResult ==
    (pc = "done" /\ first # NoResult) =>
        /\ result.result = first.result
        /\ result.reason = first.reason
        /\ first.result # "RAISED" =>
               /\ result.result_hash = first.result_hash
               /\ result.time = first.time
               /\ result.timeline = first.timeline

\* A repeated fight whose tree has health-gated children, the first run
\* having ended with those children firing.
C1_Witness ==
    /\ pc = "done" /\ replays = 1
    /\ args.root = "r_mend"
    /\ first.result = "LOSE"
    /\ \E k \in 1..Len(first.logs) : first.logs[k].role = "Trigger"
    /\ result.result_hash = first.result_hash

\* C2 (as stated): a fight ends in exactly one of WIN, LOSE, TIMEOUT; WIN only
\* with enemy health <= 0 and LOSE only with hero health <= 0 at the end of
\* the last tick, TIMEOUT only with both healths > 0 and the clock at max_time.
C2_Original ==
    pc = "done" =>
        /\ result.result \in {"WIN", "LOSE", "TIMEOUT"}
        /\ result.result = "WIN" => QLe(enemy_hp, QZero)
        /\ result.result = "LOSE" => QLe(hero_hp, QZero)
        /\ result.result = "TIMEOUT" =>
               /\ QLt(QZero, hero_hp) /\ QLt(QZero, enemy_hp)
               /\ ~FLt(time, Enemies[args.enemy].max_time.f)

\* C3: the termination test is hero-dead, then enemy-dead, then timeout: a
\* tick that ends with both healths <= 0 gives LOSE (reason hero_dead), WIN
\* needs the hero alive, and TIMEOUT needs both alive.
C3_HeroDeadFirst ==
    (pc = "done" /\ result.result # "RAISED") =>
        /\ QLe(hero_hp, QZero) =>
               result.result = "LOSE" /\ result.reason = "hero_dead"
        /\ (QLt(QZero, hero_hp) /\ QLe(enemy_hp, QZero)) =>
               result.result = "WIN" /\ result.reason = "enemy_dead"
        /\ (QLt(QZero, hero_hp) /\ QLt(QZero, enemy_hp)) => result.result = "TIMEOUT"

\* A fight whose last tick left both healths at or below zero.
C3_Witness ==
    /\ pc = "done" /\ result.result = "LOSE"
    /\ QLe(hero_hp, QZero) /\ QLe(enemy_hp, QZero)

\* C3 (as stated): a tick that ends with both healths <= 0 gives WIN.
C3_Original ==
    (pc = "done" /\ QLe(hero_hp, QZero) /\ QLe(enemy_hp, QZero)) =>
        result.result = "WIN" /\ result.reason = "enemy_dead"

\* ceil of a rational.
CeilQ(a) == -((-a[1]) \div a[2])

\* C4 (as stated): a fight executes at most ceil(max_time / dt) ticks.
C4_Original ==
    pc \in {"running", "done"} =>
        Len(timeline) <= CeilQ(QDiv(Enemies[args.enemy].max_time.q,
                                    Enemies[args.enemy].dt.q))

\* What a tick's tree evaluation must be when the gate reads fraction f.
C8_TickUses(f) ==
    LET root == Nodes[args.root]
        a == core_math(root.skill, apply_modifier_stats(stats, root.modifiers)).aps
        gated == {j \in 1..Len(root.triggers) :
                      Get(root.triggers[j], "condition", "on_hit") = "hp_lt_30"}
        entries == {k \in 1..Len(logs') : logs'[k].info = "via hp_lt_30"}
        open == simulate_chain_with_profile(args.root, args.max_depth, stats, QZero)
        closed == simulate_chain_with_profile(args.root, args.max_depth, stats, QOne)
    IN  IF QLt(f, Q(3, 10))
        THEN /\ dps' = open.dps /\ profile' = open.profile
             /\ QLt(QZero, a) =>
                    /\ Cardinality(entries) = Cardinality(gated)
                    /\ \A k \in entries : logs'[k].aps = Fmt2(a)
        ELSE /\ dps' = closed.dps /\ profile' = closed.profile
             /\ entries = {}

\* A step that executes one tick.
TickStep == pc = "running" /\ Len(timeline') = Len(timeline) + 1

\* C8: in every tick the hp_lt_30 gate reads the fraction computed at the start
\* of that tick, hero health over max(max health, 1) floored at 0: below 0.3
\* the gated children fire at the parent's attack rate, otherwise they add no
\* DPS, heal or mitigation.
C8_FreshFraction ==
    [][TickStep =>
          /\ simulation_state'.hp_percent =
                 QMax(QZero, QDiv(hero_hp, QMax(hero_max_hp, QOne)))
          /\ C8_TickUses(QMax(QZero, QDiv(hero_hp, QMax(hero_max_hp, QOne))))]_vars

\* A later tick of a fight that started below 30% health and fired the gate.
C8_Witness ==
    /\ pc = "running" /\ Len(timeline) >= 2
    /\ hero[1] = "m_plain"
    /\ QLt(simulation_state.hp_percent, Q(3, 10))
    /\ \E k \in 1..Len(logs) : logs[k].info = "via hp_lt_30"

\* C8 (as stated): the gate reads hero health divided by max health.
C8_Original ==
    [][TickStep => C8_TickUses(QDiv(hero_hp, hero_max_hp))]_vars

\* C10: hero max health 500 with a constant 200 DPS, no heal, multiplier 1,
\* against 3000 health, 30 DPS, bursts every 4 s at 2.5, dt 0.1, max_time 20:
\* WIN within one tick of 15 s, hero health > 0 throughout.
C10_Scenario ==
    (/\ hero = <<"m_plain", "t_none">> /\ pc \in {"running", "done"}
     /\ args.root = "r_solo" /\ args.enemy = "e_trial") =>
        /\ hero_max_hp = QI(500)
        /\ Get(stats, "damage_taken_mult", QOne) = QOne
        /\ timeline # << >> => dps = QI(200) /\ profile = EmptyProfile
        /\ QLt(QZero, hero_hp)
        /\ pc = "done" =>
               /\ result.result = "WIN"
               /\ result.time >= 1500 - 10 /\ result.time <= 1500 + 10

\* The scenario's fight has ended.
C10_Witness ==
    /\ hero = <<"m_plain", "t_none">> /\ pc = "done"
    /\ args.root = "r_solo" /\ args.enemy = "e_trial"
    /\ result.result = "WIN" /\ Len(result.timeline) >= 149

(***************************************************************************)
(* Properties of the tree evaluation and the damage pipeline, read off the *)
(* record `out` of a stand-alone call.                                     *)
(***************************************************************************)
RECURSIVE QSum(_, _)
QSum(f, S) ==
    IF S = {} THEN QZero
    ELSE LET j == CHOOSE x \in S : TRUE IN QAdd(f[j], QSum(f, S \ {j}))

RECURSIVE QProd(_, _)
QProd(f, S) ==
    IF S = {} THEN QOne
    ELSE LET j == CHOOSE x \in S : TRUE IN QMul(f[j], QProd(f, S \ {j}))

RECURSIVE QMaxOver(_, _)
QMaxOver(f, S) ==
    IF S = {} THEN QZero
    ELSE LET j == CHOOSE x \in S : TRUE IN QMax(f[j], QMaxOver(f, S \ {j}))

RECURSIVE SumLogDps(_, _)
SumLogDps(lg, k) == IF k > Len(lg) THEN 0 ELSE lg[k].dps + SumLogDps(lg, k + 1)

\* The position among the Trigger entries of the log of edge j, of the edges F.
Rank(j, F) == Cardinality({k \in F : k <= j})

\* The root of the call o, its resolved stats and its own evaluation.
RootStats(o) == apply_modifier_stats(o.self_stats, Nodes[o.root].modifiers)
RootRes(o) == core_math(Nodes[o.root].skill, RootStats(o))
Edges(o) == IF o.max_depth <= 0 THEN {} ELSE 1..Len(Nodes[o.root].triggers)
EdgeCond(o, j) == Get(Nodes[o.root].triggers[j], "condition", "on_hit")

\* The evaluation of the child behind edge j of the call o.
EdgeChild(o, j) ==
    walk(Nodes[o.root].triggers[j].node, 1, o.self_stats, o.hp_percent, o.max_depth)

\* The child's DPS per unit of its own rate, as the parent sees it.
EdgePerProc(o, j) ==
    QDiv(EdgeChild(o, j).dps, ChildNativeAps(EdgeChild(o, j).logs))

\* The edges of the call o that the walk follows, and what each one adds.
Followed(o) ==
    {j \in Edges(o) : QLt(QZero, TriggerFreq(EdgeCond(o, j), RootRes(o), o.hp_percent))}

Contribution(o, j) ==
    QMul(EdgePerProc(o, j), TriggerFreq(EdgeCond(o, j), RootRes(o), o.hp_percent))

\* C5: the log holds the Main entry and one Trigger entry per followed edge;
\* each entry's 'dps' is its contribution truncated toward zero to an integer,
\* and the total DPS is the sum of the untruncated contributions.
C5_TruncatedLog ==
    out.kind = "chain" =>
        LET F == Followed(out)
            contrib == [j \in F |-> Contribution(out, j)]
        IN  /\ Len(out.logs) = 1 + Cardinality(F)
            /\ out.logs[1].dps = QInt(RootRes(out).dps)
            /\ \A j \in F : out.logs[1 + Rank(j, F)].dps = QInt(contrib[j])
            /\ out.total_dps = QAdd(RootRes(out).dps, QSum(contrib, F))

\* A tree with Trigger entries whose total is not the sum of the logged values.
C5_Witness ==
    /\ out.kind = "chain" /\ Len(out.logs) >= 2
    /\ out.total_dps # QI(SumLogDps(out.logs, 1))

\* C5 (as stated): the total DPS equals the sum of the 'dps' values of the log.
C5_Original ==
    out.kind = "chain" => out.total_dps = QI(SumLogDps(out.logs, 1))

\* The average hit of the child behind edge j, evaluated on its own.
ChildAvgHit(o, j) ==
    LET child == Nodes[Nodes[o.root].triggers[j].node]
    IN  core_math(child.skill, apply_modifier_stats(o.self_stats, child.modifiers)).avg_hit

\* C6 (as stated): each triggered child adds its average hit times the proc
\* rate of its edge, whatever the child's native attack rate.
C6_Original ==
    (out.kind = "chain" /\ out.max_depth = 1) =>
        LET F == Followed(out)
            expected == [j \in F |->
                             QMul(ChildAvgHit(out, j),
                                  TriggerFreq(EdgeCond(out, j), RootRes(out),
                                              out.hp_percent))]
        IN  out.total_dps = QAdd(RootRes(out).dps, QSum(expected, F))

\* The proc-rate laws.
LawRate(cond, a, c, hp_percent) ==
    CASE cond = "on_hit" -> a
      [] cond = "on_crit" -> QMul(a, c)
      [] cond = "fixed_chance_20" -> QMul(a, Q(1, 5))
      [] cond = "hp_lt_30" -> IF QLt(hp_percent, Q(3, 10)) THEN a ELSE QZero
      [] OTHER -> QZero

\* C7: with parent attack rate a and crit rate c (the resolved crit_rate clamped
\* to [0,1]; 0 for a parent skill without a damage component), an on_hit edge
\* fires at a, an on_crit edge at a*c, a fixed_chance_20 edge at a*0.2; an edge
\* whose rate is <= 0 adds nothing to the DPS, the log or the side-effect profile.
C7_ProcRates ==
    out.kind = "chain" =>
        LET a == Get(RootStats(out), "atk_spd", QOne)
            r == Get(RootStats(out), "crit_rate", Q(5, 100))
            c == IF Nodes[out.root].skill.damage_components = << >> THEN QZero
                 ELSE IF QLt(r, QZero) THEN QZero ELSE IF QLt(QOne, r) THEN QOne ELSE r
            rate == [j \in Edges(out) |-> LawRate(EdgeCond(out, j), a, c, out.hp_percent)]
            F == {j \in Edges(out) : QLt(QZero, rate[j])}
            contrib == [j \in F |-> QMul(EdgePerProc(out, j), rate[j])]
            own == EffectsProfile(Nodes[out.root].skill, RootRes(out), out.self_stats)
        IN  /\ Len(out.logs) = 1 + Cardinality(F)
            /\ \A j \in F :
                   LET e == out.logs[1 + Rank(j, F)]
                   IN  /\ e.role = "Trigger" /\ e.info = "via " \o EdgeCond(out, j)
                       /\ e.aps = Fmt2(rate[j])
                       /\ e.dps = QInt(contrib[j])
            /\ out.total_dps = QAdd(RootRes(out).dps, QSum(contrib, F))
            /\ out.profile =
                   [heal_per_sec |->
                        QAdd(own.heal_per_sec,
                             QSum([j \in F |-> EdgeChild(out, j).profile.heal_per_sec], F)),
                    damage_taken_mult |->
                        QMul(own.damage_taken_mult,
                             QProd([j \in F |-> EdgeChild(out, j).profile.damage_taken_mult], F)),
                    uptime_guard |->
                        QMax(own.uptime_guard,
                             QMaxOver([j \in F |-> EdgeChild(out, j).profile.uptime_guard], F))]

\* A parent with crit rate 1/4 and attack rate 2 and both of its edges
\* followed: on_crit at 1/2 and fixed_chance_20 at 2/5.
C7_Witness ==
    /\ out.kind = "chain" /\ out.root = "r_crit" /\ out.max_depth >= 1
    /\ Get(out.self_stats, "crit_rate", QZero) = Q(1, 4)
    /\ Len(out.logs) = 3
    /\ out.logs[2].aps = Q(1, 2) /\ out.logs[3].aps = Q(2, 5)

\* C9: the average hit is h*(1 + c*(m-1)) with c the resolved crit_rate clamped
\* to [0,1], and the reported crit rate is c.
C9_CritExpectation ==
    (out.kind = "calc" /\ Skills[out.skill].damage_components # << >>) =>
        LET fs == apply_modifier_stats(out.self_stats, out.mods)
            h == HitDmg(Skills[out.skill].damage_components[1], fs)
            r == Get(fs, "crit_rate", Q(5, 100))
            m == Get(fs, "crit_dmg", Q(3, 2))
            c == IF QLt(r, QZero) THEN QZero ELSE IF QLt(QOne, r) THEN QOne ELSE r
        IN  /\ out.res.Avg_Hit = QMul(h, QAdd(QOne, QMul(c, QSub(m, QOne))))
            /\ out.res.Crit_Info.rate = c

\* A hit evaluated with a resolved crit_rate above 1.
C9_Witness ==
    /\ out.kind = "calc" /\ Skills[out.skill].damage_components # << >>
    /\ QLt(QOne, Get(out.self_stats, "crit_rate", Q(5, 100)))
    /\ out.res.Crit_Info.rate = QOne
    /\ QLt(QZero, out.res.Avg_Hit)

(***************************************************************************)
(* Further properties of the fight evaluation.                             *)
(***************************************************************************)
\* The largest total DPS the tree of the fight can have on a tick: the
\* health gate is the only thing that varies between ticks.
MaxTreeDps ==
    QMax(simulate_chain_with_profile(args.root, args.max_depth, stats, QZero).dps,
         simulate_chain_with_profile(args.root, args.max_depth, stats, QOne).dps)

\* C11 (as stated, for fights that execute a tick): when hero total DPS times
\* max_time is below the enemy's health and the hero is never dead, the fight
\* ends in TIMEOUT, reason damage_insufficient, at exactly max_time.
C11_Original ==
    (/\ pc = "done" /\ timeline # << >>
     /\ QLt(QMul(MaxTreeDps, Enemies[args.enemy].max_time.q), Enemies[args.enemy].enemy_hp)
     /\ result.result # "LOSE") =>
        /\ result.result = "TIMEOUT"
        /\ result.reason = "damage_insufficient"
        /\ QI(result.time) = QMul(Enemies[args.enemy].max_time.q, QI(100))

(***************************************************************************)
(* Properties of a node's own effects block, read off a tree call that     *)
(* stops at the root (max_depth 0).                                        *)
(***************************************************************************)
\* The effects block of the root of the call o.
RootEffects(o) == Get(Nodes[o.root].skill, "effects", EmptyDict)

\* The proc rate of an effect on a node with attack rate a: a floored at 0,
\* and capped at 1/icd when an icd > 0 is declared.
EffectRate(a, effects) ==
    LET icd == Get(effects, "icd", QZero)
        floored == IF QLt(a, QZero) THEN QZero ELSE a
    IN  IF QLt(QZero, icd) /\ QLt(QDiv(QOne, icd), floored) THEN QDiv(QOne, icd)
        ELSE floored

\* min(1, max(0, x)).
Unit(x) == IF QLt(x, QZero) THEN QZero ELSE IF QLt(QOne, x) THEN QOne ELSE x

\* A tree call that stops at a root with a mitigation effect of duration > 0.
MitigationCall ==
    /\ out.kind = "chain" /\ out.max_depth = 0
    /\ "damage_taken_mult" \in DOMAIN RootEffects(out)
    /\ QLt(QZero, Get(RootEffects(out), "duration", QZero))

\* C12: an effect with multiplier d, duration t > 0 and proc rate p has uptime
\* u = min(1, max(0, p*t)) and expected multiplier u*d + (1-u); with p*t >= 1
\* the uptime is exactly 1 and the expected multiplier is d.
C12_Blend ==
    MitigationCall =>
        LET d == RootEffects(out).damage_taken_mult
            t == RootEffects(out).duration
            p == EffectRate(RootRes(out).aps, RootEffects(out))
            u == Unit(QMul(p, t))
        IN  /\ out.profile.uptime_guard = u
            /\ out.profile.damage_taken_mult = QAdd(QMul(u, d), QSub(QOne, u))
            /\ QLe(QOne, QMul(p, t)) =>
                   /\ out.profile.uptime_guard = QOne
                   /\ out.profile.damage_taken_mult = d

\* The effect of proc rate above 2/s and duration 0.5 s: uptime clamped to 1.
C12_Witness ==
    /\ MitigationCall /\ out.root = "r_ward"
    /\ QLt(QI(2), RootRes(out).aps)
    /\ RootEffects(out).duration = Q(1, 2)
    /\ out.profile.uptime_guard = QOne
    /\ out.profile.damage_taken_mult = Q(1, 2)

\* C13: with icd > 0 the proc rate behind an effect's heal rate and uptime is
\* the attack rate floored at 0 and capped at 1/icd; with icd <= 0 or absent it
\* is the attack rate floored at 0.
C13_IcdCap ==
    (out.kind = "chain" /\ out.max_depth = 0 /\ DOMAIN RootEffects(out) # {}) =>
        LET ef == RootEffects(out)
            a == Get(RootStats(out), "atk_spd", QOne)
            icd == Get(ef, "icd", QZero)
            p == IF QLt(QZero, icd) THEN QMin(QMax(QZero, a), QDiv(QOne, icd))
                 ELSE QMax(QZero, a)
            heal_pct == Get(ef, "heal_percent_max_hp", QZero)
            max_hp == Get(out.self_stats, "max_hp", QI(500))
        IN  /\ QLe(QZero, p)
            /\ QLt(QZero, icd) => QLe(p, QDiv(QOne, icd))
            /\ out.profile.heal_per_sec =
                   IF QLt(QZero, heal_pct) THEN QMul(QMul(p, heal_pct), max_hp) ELSE QZero
            /\ ("damage_taken_mult" \in DOMAIN ef /\ QLt(QZero, Get(ef, "duration", QZero))) =>
                   out.profile.uptime_guard = Unit(QMul(p, ef.duration))

\* An effect with icd 4 on a node attacking twice a second: heal and uptime at
\* the capped rate 1/4.
C13_Witness ==
    /\ out.kind = "chain" /\ out.max_depth = 0 /\ out.root = "r_bulwark"
    /\ RootRes(out).aps = QI(2)
    /\ out.profile.heal_per_sec =
           QMul(QMul(Q(1, 4), Q(1, 20)), Get(out.self_stats, "max_hp", QI(500)))
    /\ out.profile.uptime_guard = Q(3, 4)

(***************************************************************************)
(* Properties of the depth cap, read off the calls of walk of a tree call. *)
(***************************************************************************)
Max(a, b) == IF a >= b THEN a ELSE b

\* The calls of walk that are on the recursion path of call i: for each
\* smaller depth, the latest earlier call at that depth.
PathOf(v, i) ==
    {j \in 1..(i - 1) :
        /\ v[j].depth < v[i].depth
        /\ \A k \in (j + 1)..(i - 1) : v[k].depth > v[j].depth}

C15_Original ==
    out.kind = "chain" =>
        \A i \in 1..Len(out.visits) :
            \A j \in PathOf(out.visits, i) : out.visits[j].node # out.visits[i].node

(***************************************************************************)
(* Properties of the walk on inputs it cannot use.                         *)
(***************************************************************************)
RecognizedTags == {"on_hit", "on_crit", "fixed_chance_20", "hp_lt_30"}

IsRecognized(trig) == Get(trig, "condition", "on_hit") \in RecognizedTags

\* The roots with an edge of unrecognized tag, each with its tree without
\* those edges.
WithoutUnknown == [r_odd |-> "r_odd_cut"]

\* C16: an edge whose condition tag is not recognized adds nothing: total DPS,
\* log and side-effect profile are those of the tree without the edge, the
\* edges after it evaluated as usual.
C16_UnknownTag ==
    (out.kind = "chain" /\ out.root \in DOMAIN WithoutUnknown) =>
        LET cut == WithoutUnknown[out.root]
            c == simulate_chain_with_profile(cut, out.max_depth, out.self_stats,
                                             out.hp_percent)
        IN  /\ Nodes[cut].triggers = SelectSeq(Nodes[out.root].triggers, IsRecognized)
            /\ Nodes[cut].skill = Nodes[out.root].skill
            /\ Nodes[cut].modifiers = Nodes[out.root].modifiers
            /\ out.total_dps = c.dps
            /\ out.logs = c.logs
            /\ out.profile = c.profile

\* The tree with two unknown tags, its two other edges followed: one after the
\* first unknown edge, one after the second.
C16_Witness ==
    /\ out.kind = "chain" /\ out.root = "r_odd" /\ out.max_depth >= 1
    /\ QLt(out.hp_percent, Q(3, 10))
    /\ Len(out.logs) = 3
    /\ out.logs[2].info = "via on_hit" /\ out.logs[3].info = "via fixed_chance_20"
    /\ QLt(out.profile.damage_taken_mult, QOne)

\* C17 (as stated): with the root node absent, the tree evaluation and the
\* fight evaluation return a value to the caller; no exception escapes.
C17_Original ==
    /\ (out.kind = "raised" /\ out.call = "chain") => out.root # NoneNode
    /\ (pc = "done" /\ args.root = NoneNode) => result.result # "RAISED"

(***************************************************************************)
(* Properties of the hero's health in a fight.                             *)
(***************************************************************************)
\* The incoming damage of the tick that appended the last sample of tl.
Incoming(e, tl) ==
    IF tl[Len(tl)].is_crit THEN QMul(QMul(e.enemy_dps, e.dt.q), e.boss_crit_mult)
    ELSE QMul(e.enemy_dps, e.dt.q)

\* x held to [lo, hi].
Held(x, lo, hi) == IF QLt(x, lo) THEN lo ELSE IF QLt(hi, x) THEN hi ELSE x

\* C18: in every tick the damage subtracted from hero health is the incoming
\* damage (enemy_dps*dt, times the burst multiplier on a burst tick) times the
\* product of the hero's damage_taken_mult and the profile's multiplier held to
\* [0.1, 2.0]; the tick's heal is then applied to what remains.
C18_ClampedDamage ==
    [][TickStep =>
          LET e == Enemies[args.enemy]
              incoming == Incoming(e, timeline')
              factor == Held(QMul(Get(stats, "damage_taken_mult", QOne),
                                  profile'.damage_taken_mult), Q(1, 10), QI(2))
              hp1 == QSub(hero_hp, QMul(incoming, factor))
              heal_amt == QMul(profile'.heal_per_sec, e.dt.q)
          IN  /\ hero_hp' = IF QLt(QZero, heal_amt) /\ QLt(hp1, hero_max_hp)
                            THEN QMin(hero_max_hp, QAdd(hp1, heal_amt)) ELSE hp1
              /\ heal_amt = QZero =>
                     /\ QLe(QMul(incoming, Q(1, 10)), QSub(hero_hp, hero_hp'))
                     /\ QLe(QSub(hero_hp, hero_hp'), QMul(incoming, QI(2)))]_vars

\* The first tick of a hero whose damage_taken_mult is negative: a tenth of the
\* incoming damage is taken.
C18_Witness ==
    /\ pc = "running" /\ Len(timeline) = 1
    /\ QLt(Get(stats, "damage_taken_mult", QOne), QZero)
    /\ QLt(QZero, Incoming(Enemies[args.enemy], timeline))
    /\ profile.heal_per_sec = QZero
    /\ hero_hp = QSub(hero_max_hp, QMul(Incoming(Enemies[args.enemy], timeline), Q(1, 10)))

\* C19: with enemy DPS and burst multiplier >= 0, hero health is at most hero
\* max health when the fight starts and at the end of every tick.
C19_HealthCapped ==
    (/\ pc \in {"running", "done"}
     /\ QLe(QZero, Enemies[args.enemy].enemy_dps)
     /\ QLe(QZero, Enemies[args.enemy].boss_crit_mult)) => QLe(hero_hp, hero_max_hp)

\* A tick whose heal was more than the damage it took: health is back at max.
C19_Witness ==
    /\ pc = "running" /\ Len(timeline) >= 2
    /\ QLt(QZero, Incoming(Enemies[args.enemy], timeline))
    /\ QLt(QMul(Incoming(Enemies[args.enemy], timeline), QI(2)),
           QMul(profile.heal_per_sec, Enemies[args.enemy].dt.q))
    /\ hero_hp = hero_max_hp

C26_Original ==
    pc \in {"running", "done"} =>
        \A i \in 1..Len(timeline) :
            timeline[i].is_crit =>
                QLe(QMul(Enemies[args.enemy].boss_crit_interval.q, QI(10)),
                    QI(timeline[i].time))

\* C27 (as stated): a fight called with max_time <= 0 returns TIMEOUT with an
\* empty timeline.
C27_Original ==
    (pc = "done" /\ args.root # NoneNode
     /\ QLe(Enemies[args.enemy].max_time.q, QZero)) =>
        /\ result.result = "TIMEOUT"
        /\ result.timeline = << >>

(***************************************************************************)
(* Properties of the damage pipeline, read off a single-skill call.        *)
(***************************************************************************)
\* The first damage component of the call o and the stats it is resolved with.
CalcComp(o) == Skills[o.skill].damage_components[1]
CalcStats(o) == apply_modifier_stats(o.self_stats, o.mods)

\* 1 + c*(m - 1), c the clamped crit rate and m the crit multiplier.
CritFactor(fs) ==
    LET r == Get(fs, "crit_rate", Q(5, 100))
        c == IF QLt(r, QZero) THEN QZero ELSE IF QLt(QOne, r) THEN QOne ELSE r
    IN  QAdd(QOne, QMul(c, QSub(Get(fs, "crit_dmg", Q(3, 2)), QOne)))

\* C23 (as stated): the increases are summed, the elemental one included, for
\* a component of type fire, cold or lightning.
C23_Original ==
    (/\ out.kind = "calc" /\ Skills[out.skill].damage_components # << >>
     /\ "scaling_source" \in DOMAIN CalcComp(out)) =>
        LET fs == CalcStats(out)
            comp == CalcComp(out)
            base == QAdd(QAdd(QDiv(QAdd(comp.min, comp.max), QI(2)),
                              QMul(Get(fs, comp.scaling_source, QZero),
                                   Get(comp, "scaling_coef", QOne))),
                         Get(fs, FlatKey(comp.type), QZero))
            sum == QAdd(QAdd(QOne, Get(fs, "inc_all", QZero)),
                        Get(fs, IncKey(comp.type), QZero))
            inc == IF comp.type \in {"fire", "cold", "lightning"}
                   THEN QAdd(sum, Get(fs, "inc_elemental", QZero)) ELSE sum
            more == QAdd(QOne, Get(fs, "more_damage", QZero))
        IN  out.res.Avg_Hit = QMul(QMul(QMul(base, inc), more), CritFactor(fs))

\* The increase factor of _core_math for a component of type dtype.
CodeInc(dtype, fs) ==
    LET sum == QAdd(QAdd(QOne, Get(fs, "inc_all", QZero)), Get(fs, IncKey(dtype), QZero))
    IN  IF dtype \in {"fire", "cold", "lightning"}
        THEN QMul(sum, QAdd(QOne, Get(fs, "inc_elemental", QZero))) ELSE sum

\* C25 (as stated): a component without scaling_source has no scaling term:
\* its base value is the average of min and max plus the flat pool of its type.
C25_Original ==
    (/\ out.kind = "calc" /\ Skills[out.skill].damage_components # << >>
     /\ "scaling_source" \notin DOMAIN CalcComp(out)) =>
        LET fs == CalcStats(out)
            comp == CalcComp(out)
            base == QAdd(QDiv(QAdd(comp.min, comp.max), QI(2)),
                         Get(fs, FlatKey(comp.type), QZero))
            more == QAdd(QOne, Get(fs, "more_damage", QZero))
        IN  out.res.Avg_Hit =
                QMul(QMul(QMul(base, CodeInc(comp.type, fs)), more), CritFactor(fs))

\* C22 (as stated): the DPS of a node and the total DPS of a tree are never
\* negative, and a tick never raises the enemy's health.
C22_Original ==
    /\ out.kind = "calc" => QLe(QZero, out.res.DPS)
    /\ out.kind = "chain" => QLe(QZero, out.total_dps)
    /\ (pc \in {"running", "done"} /\ args.enemy \in DOMAIN Enemies) =>
           QLe(enemy_hp, Enemies[args.enemy].enemy_hp)

(***************************************************************************)
(* Properties of the tick-sample log.                                      *)
(***************************************************************************)
\* C24 (as stated): sample times start at 0 and rise by dt, each sample's
\* healths are >= 0, the result of a finished fight carries every sample, and
\* a TIMEOUT result carries ceil(max_time / dt) samples.
C24_Original ==
    (pc \in {"running", "done"} /\ args.root # NoneNode) =>
        LET e == Enemies[args.enemy]
        IN  /\ \A i \in 1..Len(timeline) :
                   /\ QI(timeline[i].time) = QMul(QMul(e.dt.q, QI(i - 1)), QI(10))
                   /\ timeline[i].hero_hp >= 0 /\ timeline[i].enemy_hp >= 0
            /\ (pc = "done" /\ result.result # "RAISED") => result.timeline = timeline
            /\ (pc = "done" /\ result.result = "TIMEOUT") =>
                   Len(result.timeline) = CeilQ(QDiv(e.max_time.q, e.dt.q))

(***************************************************************************)
(* Order of the phases of a tick.                                          *)
(***************************************************************************)
\* The hero's health after the damage of the tick that is being taken.
AfterIncoming ==
    QSub(hero_hp,
         QMul(Incoming(Enemies[args.enemy], timeline'),
              Held(QMul(Get(stats, "damage_taken_mult", QOne),
                        profile'.damage_taken_mult), Q(1, 10), QI(2))))

\* C30: the heal of a tick is applied after its incoming damage and before the
\* termination test: LOSE is declared exactly when health is <= 0 after the
\* heal, so a hero at or below 0 after the damage whom the heal lifts above 0
\* is not declared LOSE on that tick.
C30_HealBeforeVerdict ==
    [][TickStep =>
          LET heal_amt == QMul(profile'.heal_per_sec, Enemies[args.enemy].dt.q)
              healed == IF QLt(QZero, heal_amt) /\ QLt(AfterIncoming, hero_max_hp)
                        THEN QMin(hero_max_hp, QAdd(AfterIncoming, heal_amt))
                        ELSE AfterIncoming
              lose == pc' = "done" /\ result'.result = "LOSE"
          IN  /\ hero_hp' = healed
              /\ lose <=> QLe(healed, QZero)
              /\ (QLe(AfterIncoming, QZero) /\ QLt(QZero, healed)) => ~lose]_vars

\* A tick has ended with the hero above 0 only by its heal, and the fight
\* goes on or was won.
C30_Witness ==
    /\ pc \in {"running", "done"} /\ timeline # << >>
    /\ QLt(QZero, profile.heal_per_sec)
    /\ QLt(QZero, hero_hp) /\ QLt(hero_hp, hero_max_hp)
    /\ QLe(hero_hp, QMul(profile.heal_per_sec, Enemies[args.enemy].dt.q))
    /\ pc = "done" => result.result = "WIN"

(***************************************************************************)
(* The side-effect profile of a triggered child.                           *)
(***************************************************************************)
\* The profile of an effects block that procs at `rate` (floored at 0 and
\* capped by the block's icd): heal = p * heal_fraction * max_hp, uptime =
\* min(1, p * duration), multiplier blended by the uptime.
ProfileAtRate(effects, rate, max_hp) ==
    IF DOMAIN effects = {} THEN EmptyProfile
    ELSE LET p == EffectRate(rate, effects)
             heal_pct == Get(effects, "heal_percent_max_hp", QZero)
             t == Get(effects, "duration", QZero)
             guarded == "damage_taken_mult" \in DOMAIN effects /\ QLt(QZero, t)
             u == Unit(QMul(p, t))
         IN  [heal_per_sec |-> IF QLt(QZero, heal_pct) THEN QMul(QMul(p, heal_pct), max_hp)
                               ELSE QZero,
              damage_taken_mult |->
                  IF guarded
                  THEN QAdd(QMul(u, effects.damage_taken_mult), QSub(QOne, u)) ELSE QOne,
              uptime_guard |-> IF guarded THEN u ELSE QZero]

\* C28 (as stated): the heal rate and the uptime a triggered child adds to the
\* profile are those of its effects at the proc rate of its trigger edge.
C28_Original ==
    (out.kind = "chain" /\ out.max_depth = 1) =>
        LET F == Followed(out)
            max_hp == Get(out.self_stats, "max_hp", QI(500))
            own == EffectsProfile(Nodes[out.root].skill, RootRes(out), out.self_stats)
            child == [j \in F |->
                         ProfileAtRate(
                             Get(Nodes[Nodes[out.root].triggers[j].node].skill,
                                 "effects", EmptyDict),
                             TriggerFreq(EdgeCond(out, j), RootRes(out), out.hp_percent),
                             max_hp)]
        IN  /\ out.profile.heal_per_sec =
                   QAdd(own.heal_per_sec, QSum([j \in F |-> child[j].heal_per_sec], F))
            /\ out.profile.damage_taken_mult =
                   QMul(own.damage_taken_mult,
                        QProd([j \in F |-> child[j].damage_taken_mult], F))
            /\ out.profile.uptime_guard =
                   QMax(own.uptime_guard,
                        QMaxOver([j \in F |-> child[j].uptime_guard], F))

(***************************************************************************)
(* A tree call after a fight on the same engine.                           *)
(***************************************************************************)
\* C29 (as stated): a tree call made after a fight returns what the same call
\* returns on a freshly built engine, whose simulation state is hp_percent 1.
C29_Original ==
    (out.kind = "chain" /\ pc = "done") =>
        \E fresh \in {simulate_chain_with_profile(out.root, out.max_depth, stats, QOne)} :
            /\ out.total_dps = fresh.dps
            /\ out.logs = fresh.logs
            /\ out.profile = fresh.profile

(***************************************************************************)
(* Two engines.  A second DiabloEngine built from the same catalog runs     *)
(* its own simulate_mvp_fight; `other` is that instance: its attributes     *)
(* (stats, simulation_state) and the locals of its fight.  The catalog      *)
(* (Models, Talents, Skills, Nodes, Enemies) is only read.                  *)
(***************************************************************************)
\* The heroes, trees and enemies of the fights that run side by side.
PairModels == {"m_plain", "m_frail"}
PairTalents == {"t_none"}
PairRoots == {"r_solo", "r_mend", "r_guard"}
PairEnemies == {"e_edge"}
OtherRoots == {"r_mend", "r_guard"}

\* Lines 23-26 and 265-293: an engine with hero h, entering a fight.
FightRec(h, a) ==
    LET st == build_hero(Models[h[1]], Talents[h[2]])
        e == Enemies[a.enemy]
    IN  [hero |-> h, stats |-> st, simulation_state |-> [hp_percent |-> QOne],
         pc |-> "running", args |-> a,
         hero_hp |-> Get(st, "max_hp", QI(500)),
         hero_max_hp |-> Get(st, "max_hp", QI(500)),
         enemy_hp |-> e.enemy_hp, time |-> FZero,
         last_crit_time |-> [neg |-> TRUE, mag |-> e.boss_crit_interval.f],
         timeline |-> << >>, combat_log |-> << >>, logs |-> << >>,
         result |-> NoResult, mark |-> -1, crossed |-> FALSE]

\* Lines 303-382 of one iteration, after the tree walk returned `chain`.
TickRec(s, e, self_stats, hp_pct, chain) ==
    LET ehp == QSub(s.enemy_hp, QMul(chain.dps, e.dt.q))
        is_boss_crit == IsBossCrit(s.time, s.last_crit_time, e.boss_crit_interval.f)
        incoming_dmg == IF is_boss_crit
                        THEN QMul(QMul(e.enemy_dps, e.dt.q), e.boss_crit_mult)
                        ELSE QMul(e.enemy_dps, e.dt.q)
        final_taken_mult == FinalTakenMult(Get(self_stats, "damage_taken_mult", QOne),
                                           chain.profile.damage_taken_mult)
        hp1 == AfterDamage(s.hero_hp, incoming_dmg, final_taken_mult)
        heal_amt == QMul(chain.profile.heal_per_sec, e.dt.q)
        hp2 == Healed(hp1, s.hero_max_hp, heal_amt)
        verdict == Verdict(TestedHp(hp1, hp2), ehp)
        at == FDecimal(s.time, 10)
        tl == Append(s.timeline, Sample(at, hp2, ehp, is_boss_crit))
        cl == TickLog(s.combat_log, at, is_boss_crit, incoming_dmg, e.dt.q,
                      heal_amt, hp1, s.hero_max_hp, verdict)
    IN  [s EXCEPT !.simulation_state = [hp_percent |-> hp_pct],
                  !.stats = StatsAfterWalk(chain.visits, 1, s.stats),
                  !.logs = chain.logs,
                  !.enemy_hp = ehp,
                  !.last_crit_time = IF is_boss_crit THEN [neg |-> FALSE, mag |-> s.time]
                                     ELSE @,
                  !.hero_hp = hp2,
                  !.timeline = tl,
                  !.combat_log = cl,
                  !.time = IF verdict = "RUNNING" THEN FAdd(s.time, e.dt.f) ELSE @,
                  !.pc = IF verdict = "RUNNING" THEN @ ELSE "done",
                  !.result = IF verdict = "RUNNING" THEN @
                             ELSE MakeResult(verdict, FDecimal(s.time, 100),
                                             IF verdict = "LOSE" THEN "hero_dead"
                                             ELSE "enemy_dead",
                                             tl, chain.logs, cl, s.args)]

\* Lines 297-301 of one iteration: the health fraction is stored and the tree
\* is walked with the attributes the engine reads as self.stats and
\* self.simulation_state; `foreign` holds those of the other instance.
WalkRec(s, e, self_stats, hp_pct, foreign) ==
    TickRec(s, e, self_stats, hp_pct,
            simulate_chain_with_profile(
                s.args.root, s.args.max_depth, self_stats,
                SimulationHpPercent(
                    hp_pct,
                    InstanceAttr(s.simulation_state,
                                 foreign.simulation_state).hp_percent)))

\* Lines 384-400 on the record of a fight.
TimeoutRec(s) ==
    LET cl == Append(s.combat_log, [at |-> FDecimal(s.time, 10), what |-> "timeout",
                                    n |-> 0])
    IN  [s EXCEPT !.combat_log = cl,
                  !.pc = "done",
                  !.result = IF s.logs = << >> THEN Raised("UnboundLocalError")
                             ELSE MakeResult("TIMEOUT",
                                             FDecimal(Enemies[s.args.enemy].max_time.f, 100),
                                             "damage_insufficient", s.timeline, s.logs,
                                             cl, s.args)]

\* One step of simulate_mvp_fight on the record of a fight: an iteration of
\* the loop, or the code after it.
StepRec(s, foreign) ==
    IF LoopRuns(s.time, Enemies[s.args.enemy].max_time.f)
    THEN WalkRec(s, Enemies[s.args.enemy], InstanceAttr(s.stats, foreign.stats),
                 TickHpPct(s.hero_hp, s.hero_max_hp), foreign)
    ELSE TimeoutRec(s)

\* simulate_mvp_fight run from a record to its return, nothing else running.
RECURSIVE RunAlone(_)
RunAlone(s) == IF s.pc = "running" THEN RunAlone(StepRec(s, s)) ELSE s

\* A second engine is built and enters its fight.  mark and crossed record
\* how its steps fall between the first engine's ticks.
StartOther(h, root, enemy) ==
    /\ other = NoOther
    /\ other' = FightRec(h, [root |-> root, enemy |-> enemy, max_depth |-> 1,
                             seed |-> 12345])
    /\ UNCHANGED <<hero, stats, simulation_state, pc, args, fight_locals, result,
                   first, replays, out>>

\* The second engine's fight takes one step.
StepOther ==
    /\ other # NoOther
    /\ other.pc = "running"
    /\ \E between \in {pc = "running" /\ Len(timeline) >= 1} :
       \E nxt \in {StepRec(other, [stats |-> stats,
                                   simulation_state |-> simulation_state])} :
           other' = [nxt EXCEPT
                        !.mark = IF other.mark = -1 /\ between THEN Len(timeline) ELSE @,
                        !.crossed = \/ @
                                    \/ /\ between
                                       /\ other.mark >= 1
                                       /\ Len(timeline) > other.mark]
    /\ UNCHANGED <<hero, stats, simulation_state, pc, args, fight_locals, result,
                   first, replays, out>>

NextPair ==
    \/ \E m \in PairModels, t \in PairTalents : BuildHero(m, t)
    \/ \E root \in PairRoots, enemy \in PairEnemies : StartFight(root, enemy, 1, 12345)
    \/ Tick
    \/ Timeout
    \/ \E m \in PairModels, t \in PairTalents, root \in OtherRoots, enemy \in PairEnemies :
           StartOther(<<m, t>>, root, enemy)
    \/ StepOther

SpecPair == Init /\ [][NextPair]_vars

\* A hero that was never built fights with the empty stats of __init__.
AloneOf(h, a) ==
    IF h = <<"none", "none">>
    THEN RunAlone([FightRec(<<"m_plain", "t_none">>, a)
                      EXCEPT !.hero = h, !.stats = EmptyDict,
                             !.hero_hp = QI(500), !.hero_max_hp = QI(500)])
    ELSE RunAlone(FightRec(h, a))

====
